---------------------------- MODULE Spec2Model ----------------------------
(***************************************************************************)
(* A model of cargox: the run_application pipeline of src/src/main.rs over *)
(* a file system, the installer of src/src/installer.rs, the path resolver *)
(* of src/src/paths.rs, the spec parser of src/src/target.rs and the       *)
(* registry resolver of src/src/registry.rs.                               *)
(*                                                                         *)
(* The unix build is modelled (cfg(not(windows))): no ".exe" probing.      *)
(* I/O errors of create_dir_all, remove_file and rename are not modelled.  *)
(***************************************************************************)
EXTENDS Integers, Sequences, FiniteSets, TLC

VARIABLES
    fs,          \* the file system: path -> content
    installs,    \* how many binaries external installers have written so far
    cli,         \* the parsed command line of the current run (Cli)
    target,      \* the Target of the current run
    version,     \* the concrete version handed to ensure_installed
    run,         \* what the current run did (backend calls, result, executed path)
    ambient,     \* the environment of the process (installer.rs, paths.rs)
    child,       \* the external installer child process as it was spawned
    input,       \* the crate spec string given to parse_spec
    parsed,      \* the result of parse_spec
    listing,     \* the version list the registry returned
    resolved     \* the result of fetch_highest_matching_version

pipeline_vars == <<fs, installs, cli, target, version, run>>
env_vars == <<ambient, child>>
parse_vars == <<input, parsed>>
registry_vars == <<listing, resolved>>
vars == <<fs, installs, cli, target, version, run, ambient, child, input, parsed,
          listing, resolved>>

(***************************************************************************)
(* Bounds.                                                                 *)
(***************************************************************************)
\* external installer deposits after which no further deposit is explored
MaxInstalls == 2

(***************************************************************************)
(* Environment and install root (paths.rs).                                *)
(***************************************************************************)
Unset == <<>>

\* a directory is a sequence of path components
PathJoin(dir, comp) == Append(dir, comp)

\* directories::ProjectDirs::from("", "", "cargox").data_dir() on Linux:
\* needs a home directory; $XDG_DATA_HOME/cargox, else $HOME/.local/share/cargox
ProjectDirs_data_dir(e) ==
    IF e["HOME"] = Unset THEN Unset
    ELSE IF e["XDG_DATA_HOME"] # Unset THEN PathJoin(e["XDG_DATA_HOME"], "cargox")
    ELSE e["HOME"] \o <<".local", "share", "cargox">>

home_dir(e) ==
    IF e["HOME"] # Unset THEN e["HOME"] ELSE e["USERPROFILE"]

\* a mutant: the generic CARGO_INSTALL_ROOT is honoured before the data directory
get_install_dir_cargo_root(e) ==
    IF e["CARGOX_INSTALL_DIR"] # Unset THEN [ok |-> TRUE, dir |-> e["CARGOX_INSTALL_DIR"]]
    ELSE IF e["CARGO_INSTALL_ROOT"] # Unset THEN [ok |-> TRUE, dir |-> e["CARGO_INSTALL_ROOT"]]
    ELSE IF ProjectDirs_data_dir(e) # Unset THEN [ok |-> TRUE, dir |-> ProjectDirs_data_dir(e)]
    ELSE IF home_dir(e) # Unset
         THEN [ok |-> TRUE, dir |-> home_dir(e) \o <<".local", "share", "cargox">>]
    ELSE [ok |-> FALSE, dir |-> Unset]

get_install_dir(e) ==
    IF e["CARGOX_INSTALL_DIR"] # Unset THEN [ok |-> TRUE, dir |-> e["CARGOX_INSTALL_DIR"]]
    ELSE IF ProjectDirs_data_dir(e) # Unset THEN [ok |-> TRUE, dir |-> ProjectDirs_data_dir(e)]
    ELSE IF home_dir(e) # Unset
         THEN [ok |-> TRUE, dir |-> home_dir(e) \o <<".local", "share", "cargox">>]
    ELSE [ok |-> FALSE, dir |-> Unset]

candidate_bin_dirs(e) ==
    IF get_install_dir(e).ok
    THEN <<PathJoin(get_install_dir(e).dir, "bin"), get_install_dir(e).dir>>
    ELSE <<>>

EnvVars ==
    {"CARGOX_INSTALL_DIR", "HOME", "XDG_DATA_HOME", "USERPROFILE", "SOME_OTHER_VAR",
     "CARGO_INSTALL_ROOT", "CARGO_HOME", "CARGO_BUILD_TARGET_DIR", "CARGO_TARGET_DIR",
     "BINSTALL_INSTALL_PATH", "RUSTUP_HOME", "RUSTUP_TOOLCHAIN"}

\* the environment the pipeline runs in: only HOME is set
PipelineEnv == [v \in EnvVars |-> IF v = "HOME" THEN <<"home", "u">> ELSE Unset]

InstallDir == get_install_dir(PipelineEnv).dir

\* the directory of the system PATH that `which` searches
SystemPathDir == <<"usr", "bin">>

(***************************************************************************)
(* Names, versions and paths.                                              *)
(***************************************************************************)
Rg == <<"r", "g">>
Fd == <<"f", "d">>
Binaries == {Rg, Fd}
NoBin == <<>>

\* semver::Version without build metadata; pre is the pre-release text
Version(major, minor, patch, pre) ==
    [major |-> major, minor |-> minor, patch |-> patch, pre |-> pre]
V123 == Version(1, 2, 3, <<>>)
V150 == Version(1, 5, 0, <<>>)
Versions == {V123, V150}

Digit == <<"1", "2", "3", "4", "5", "6", "7", "8", "9">>
DigitChar(n) == IF n = 0 THEN "0" ELSE Digit[n]

\* Display of semver::Version (one digit per component in this model)
VersionToString(v) ==
    <<DigitChar(v.major), ".", DigitChar(v.minor), ".", DigitChar(v.patch)>>
    \o (IF v.pre = <<>> THEN <<>> ELSE <<"-">> \o v.pre)

FilePath(dir, file) == [dir |-> dir, file |-> file]

\* <root>/<binary>-<version>
versioned_binary_path(binary, v) ==
    FilePath(InstallDir, binary \o <<"-">> \o VersionToString(v))

AllPaths ==
    {FilePath(d, b) : d \in {SystemPathDir, PathJoin(InstallDir, "bin"), InstallDir},
                      b \in Binaries}
    \cup {versioned_binary_path(b, v) : b \in Binaries, v \in Versions}

Absent == [kind |-> "absent", n |-> 0]
External == [kind |-> "external", n |-> 0]
Built(n) == [kind |-> "built", n |-> n]
Contents == {Absent, External} \cup {Built(n) : n \in 1..(MaxInstalls + 1)}

exists(f, p) == p \in DOMAIN f /\ f[p] # Absent

NoPath == [dir |-> <<>>, file |-> <<>>]

(***************************************************************************)
(* Binary lookup (paths.rs).                                               *)
(***************************************************************************)
\* which::which(name): the match on the system PATH
which(f, name) ==
    IF exists(f, FilePath(SystemPathDir, name))
    THEN [ok |-> TRUE, path |-> FilePath(SystemPathDir, name)]
    ELSE [ok |-> FALSE, path |-> NoPath]

RECURSIVE first_existing(_, _, _)
first_existing(f, dirs, name) ==
    IF dirs = <<>> THEN [ok |-> FALSE, path |-> NoPath]
    ELSE IF exists(f, FilePath(Head(dirs), name))
         THEN [ok |-> TRUE, path |-> FilePath(Head(dirs), name)]
         ELSE first_existing(f, Tail(dirs), name)

\* a mutant: cargox's own directories are searched before the system PATH
resolve_binary_path_own_first(e, f, name) ==
    IF first_existing(f, candidate_bin_dirs(e), name).ok
    THEN first_existing(f, candidate_bin_dirs(e), name)
    ELSE which(f, name)

resolve_binary_path(e, f, name) ==
    IF which(f, name).ok THEN which(f, name)
    ELSE first_existing(f, candidate_bin_dirs(e), name)

\* paths::resolve_cargox_binary_path(name) is called by main.rs with the binary
\* name alone; its body is not among the sources.  It is the lookup restricted
\* to cargox's own directories (candidate_bin_dirs), without the PATH search.
resolve_cargox_binary_path(e, f, name) ==
    first_existing(f, candidate_bin_dirs(e), name)

find_existing_binary(e, f, name) == resolve_binary_path(e, f, name)

(***************************************************************************)
(* main.rs                                                                 *)
(***************************************************************************)
VersionSpecs == {"Unspecified", "Latest", "Requirement"}

\* target.version.is_some(): a version was given after `@`
version_is_some(t) == t.version # "Unspecified"

should_use_existing_binary(e, c, t, f) ==
    IF c.force THEN FALSE
    ELSE IF version_is_some(t) THEN FALSE
    ELSE find_existing_binary(e, f, t.binary).ok

locate_installed_binary(e, t, f) ==
    IF version_is_some(t) THEN resolve_cargox_binary_path(e, f, t.binary)
    ELSE resolve_binary_path(e, f, t.binary)

(***************************************************************************)
(* installer.rs                                                            *)
(***************************************************************************)
\* std::process::Command's environment: per variable, inherited from the
\* parent, removed (env_remove), or set (env)
Command_new == [envs |-> [k \in EnvVars |-> [op |-> "inherit", val |-> Unset]]]
cmd_env(cmd, k, val) == [cmd EXCEPT !.envs[k] = [op |-> "set", val |-> val]]
cmd_env_remove(cmd, k) == [cmd EXCEPT !.envs[k] = [op |-> "remove", val |-> Unset]]

\* the environment the child process receives when the command is spawned
captured_env(cmd, amb) ==
    [k \in EnvVars |->
        IF cmd.envs[k].op = "set" THEN cmd.envs[k].val
        ELSE IF cmd.envs[k].op = "remove" THEN Unset
        ELSE amb[k]]

vars_to_remove ==
    <<"CARGO_INSTALL_ROOT", "CARGO_HOME", "CARGO_BUILD_TARGET_DIR", "CARGO_TARGET_DIR",
      "BINSTALL_INSTALL_PATH", "RUSTUP_HOME", "RUSTUP_TOOLCHAIN">>

RECURSIVE remove_each(_, _)
remove_each(cmd, names) ==
    IF names = <<>> THEN cmd
    ELSE remove_each(cmd_env_remove(cmd, Head(names)), Tail(names))

\* a mutant: the last variable of the list is not removed
sanitize_cargo_env_short_list(cmd, install_dir) ==
    cmd_env(remove_each(cmd, SubSeq(vars_to_remove, 1, Len(vars_to_remove) - 1)),
            "CARGO_INSTALL_ROOT", install_dir)

sanitize_cargo_env(cmd, install_dir) ==
    cmd_env(remove_each(cmd, vars_to_remove), "CARGO_INSTALL_ROOT", install_dir)

\* tempfile::tempdir(): the scratch build directory of one install_with_cargo call
TempDir == <<"tmp", "cargox-build">>

\* the command install_with_binstall builds
binstall_command(install_dir) == sanitize_cargo_env(Command_new, install_dir)

\* the command install_with_cargo builds: CARGO_TARGET_DIR is set, then the
\* environment is sanitized
cargo_command(install_dir) ==
    sanitize_cargo_env(cmd_env(Command_new, "CARGO_TARGET_DIR", TempDir), install_dir)

\* cmd.status(): the child process as spawned by the chosen backend
spawn_child(backend, amb) ==
    LET d == get_install_dir(amb).dir IN
    [backend |-> backend,
     env |-> captured_env(IF backend = "binstall" THEN binstall_command(d)
                          ELSE cargo_command(d), amb),
     install_dir |-> d,
     temp_dir |-> IF backend = "cargo" THEN TempDir ELSE Unset]

\* a mutant: the pre-existing versioned file is kept, the new one is dropped
finalize_installation_keep_old(f, binary, v) ==
    LET installed_path == FilePath(PathJoin(InstallDir, "bin"), binary)
        target_path == versioned_binary_path(binary, v)
    IN  IF ~exists(f, installed_path)
        THEN [ok |-> FALSE, fs |-> f, replaced |-> FALSE]
        ELSE IF exists(f, target_path)
        THEN [ok |-> TRUE, fs |-> [f EXCEPT ![installed_path] = Absent], replaced |-> TRUE]
        ELSE [ok |-> TRUE,
              fs |-> [f EXCEPT ![target_path] = f[installed_path], ![installed_path] = Absent],
              replaced |-> FALSE]

\* a mutant: the versioned file is removed before the installed file is looked for
finalize_installation_remove_first(f, binary, v) ==
    LET installed_path == FilePath(PathJoin(InstallDir, "bin"), binary)
        target_path == versioned_binary_path(binary, v)
        removed == IF exists(f, target_path) THEN [f EXCEPT ![target_path] = Absent] ELSE f
    IN  IF ~exists(f, installed_path)
        THEN [ok |-> FALSE, fs |-> removed, replaced |-> FALSE]
        ELSE [ok |-> TRUE,
              fs |-> [removed EXCEPT ![target_path] = removed[installed_path],
                                     ![installed_path] = Absent],
              replaced |-> exists(f, target_path)]

finalize_installation(f, binary, v) ==
    LET installed_path == FilePath(PathJoin(InstallDir, "bin"), binary)
        target_path == versioned_binary_path(binary, v)
        removed == IF exists(f, target_path) THEN [f EXCEPT ![target_path] = Absent] ELSE f
    IN  IF ~exists(f, installed_path)
        THEN [ok |-> FALSE, fs |-> f, replaced |-> FALSE]
        ELSE [ok |-> TRUE,
              fs |-> [removed EXCEPT ![target_path] = removed[installed_path],
                                     ![installed_path] = Absent],
              replaced |-> exists(f, target_path)]

\* the backend ensure_installed chooses
choose_backend(c, binstall_found) ==
    IF ~c.build_from_source /\ binstall_found THEN "binstall" ELSE "cargo"

\* What the external installer does (opaque): it cannot be spawned, exits with
\* a failure status, is killed by a signal, or reports success having written
\* the binaries `deposit` into <root>/bin.
ToolOutcomes == {"spawn_error", "exit_failure", "signal", "success"}

tool_effect(f, outcome, deposit, n) ==
    IF outcome = "success"
    THEN [p \in DOMAIN f |->
            IF p.dir = PathJoin(InstallDir, "bin") /\ p.file \in deposit
            THEN Built(n) ELSE f[p]]
    ELSE f

\* install_with_binstall / install_with_cargo: spawn, then finalize on success;
\* the error of a failed tool carries its exit code, or "signal" without one
install_with(backend, f, t, v, outcome, deposit, n) ==
    LET after == tool_effect(f, outcome, deposit, n)
        fin == finalize_installation(after, t.binary, v)
    IN  IF outcome = "success"
        THEN [fs |-> fin.fs,
              err |-> IF fin.ok THEN "none" ELSE "InstallationIncomplete",
              status |-> "none",
              replaced |-> fin.replaced]
        ELSE [fs |-> after,
              err |-> IF outcome = "spawn_error" THEN "SpawnError" ELSE "ExternalToolFailed",
              status |-> IF outcome = "exit_failure" THEN "code"
                         ELSE IF outcome = "signal" THEN "signal" ELSE "none",
              replaced |-> FALSE]

\* a mutant: a failed cargo-binstall is followed by an attempt with cargo install
ensure_installed_with_fallback(e, f, c, t, v, binstall_found, outcome, deposit, n) ==
    LET backend == choose_backend(c, binstall_found)
        r == install_with(backend, f, t, v, outcome, deposit, n)
        again == backend = "binstall" /\ r.err \in {"SpawnError", "ExternalToolFailed"}
    IN  [fs |-> r.fs, err |-> r.err, status |-> r.status, replaced |-> r.replaced,
         backend |-> backend,
         child |-> spawn_child(IF again THEN "cargo" ELSE backend, e),
         binstall_calls |-> IF backend = "binstall" THEN 1 ELSE 0,
         cargo_calls |-> IF backend = "cargo" \/ again THEN 1 ELSE 0]

ensure_installed(e, f, c, t, v, binstall_found, outcome, deposit, n) ==
    LET backend == choose_backend(c, binstall_found)
        r == install_with(backend, f, t, v, outcome, deposit, n)
    IN  [fs |-> r.fs, err |-> r.err, status |-> r.status, replaced |-> r.replaced,
         backend |-> backend,
         child |-> spawn_child(backend, e),
         binstall_calls |-> IF backend = "binstall" THEN 1 ELSE 0,
         cargo_calls |-> IF backend = "cargo" THEN 1 ELSE 0]

(***************************************************************************)
(* The pipeline as a state machine.                                        *)
(***************************************************************************)
Clis == [force : BOOLEAN, build_from_source : BOOLEAN, bin : {NoBin, Fd}]

\* parse_target_from_cli: the crate is rg; binary = cli.bin or the crate name
Target(c, vs) ==
    [crate_name |-> Rg, version |-> vs, binary |-> IF c.bin # NoBin THEN c.bin ELSE Rg]

(***************************************************************************)
(* Rest values of the parts a specification does not exercise.             *)
(***************************************************************************)
NoEnv == [v \in EnvVars |-> Unset]
NoChild == [backend |-> "none", env |-> NoEnv, install_dir |-> Unset, temp_dir |-> Unset]
EnvIdle == ambient = NoEnv /\ child = NoChild

ParseIdle == input = <<>> /\ parsed = <<>>

RegistryIdle == listing = <<>> /\ resolved = <<>>

NoRun ==
    [kind |-> "none", was_cached |-> FALSE, binstall_calls |-> 0, cargo_calls |-> 0,
     deposited |-> FALSE, installed |-> FALSE, err |-> "none", replaced |-> FALSE, executed |-> FALSE,
     binary_path |-> NoPath,
     binstall_found |-> FALSE, outcome |-> "none", status |-> "none"]

NoCli == [force |-> FALSE, build_from_source |-> FALSE, bin |-> NoBin]

PipelineIdle ==
    /\ installs = 0
    /\ cli = NoCli
    /\ target = Target(NoCli, "Unspecified")
    /\ version = V123
    /\ run = NoRun

Init ==
    /\ \E onpath \in SUBSET {Rg}, inroot \in SUBSET {Rg} :
         fs = [p \in AllPaths |->
                 IF p.dir = SystemPathDir /\ p.file \in onpath THEN External
                 ELSE IF p.dir = InstallDir /\ p.file \in inroot THEN External
                 ELSE Absent]
    /\ PipelineIdle
    /\ ambient = PipelineEnv /\ child = NoChild
    /\ ParseIdle /\ RegistryIdle

\* run_application, the branch that runs an existing binary
run_existing_binary ==
    \E c \in Clis, vs \in VersionSpecs, v \in Versions :
        LET t == Target(c, vs) IN
        /\ run.kind = "none"
        /\ should_use_existing_binary(ambient, c, t, fs)
        /\ cli' = c /\ target' = t /\ version' = v
        /\ run' = [NoRun EXCEPT !.kind = "existing",
                                !.was_cached = exists(fs, versioned_binary_path(t.binary, v)),
                                !.executed = TRUE,
                                !.binary_path = find_existing_binary(ambient, fs, t.binary).path]
        /\ UNCHANGED <<fs, installs, env_vars, parse_vars, registry_vars>>

\* run_application, the branch that installs, locates and executes
install_and_run_binary ==
    \E c \in Clis, vs \in VersionSpecs, v \in Versions, binstall_found \in BOOLEAN,
       outcome \in ToolOutcomes, deposit \in SUBSET Binaries :
        LET t == Target(c, vs)
            r == ensure_installed(ambient, fs, c, t, v, binstall_found, outcome, deposit,
                                  installs + 1)
            loc == locate_installed_binary(ambient, t, r.fs)
        IN
        /\ run.kind = "none"
        /\ ~should_use_existing_binary(ambient, c, t, fs)
        /\ outcome = "success" => installs < MaxInstalls
        /\ outcome # "success" => deposit = {}
        /\ cli' = c /\ target' = t /\ version' = v
        /\ fs' = r.fs
        /\ child' = r.child
        /\ installs' = IF outcome = "success" /\ deposit # {} THEN installs + 1 ELSE installs
        /\ run' = [kind |-> "install",
                   was_cached |-> exists(fs, versioned_binary_path(t.binary, v)),
                   binstall_calls |-> r.binstall_calls,
                   cargo_calls |-> r.cargo_calls,
                   deposited |-> outcome = "success" /\ t.binary \in deposit,
                   installed |-> r.err = "none",
                   err |-> IF r.err # "none" THEN r.err
                           ELSE IF loc.ok THEN "none" ELSE "BinaryNotFound",
                   replaced |-> r.replaced,
                   executed |-> r.err = "none" /\ loc.ok,
                   binary_path |-> IF r.err = "none" THEN loc.path ELSE NoPath,
                   binstall_found |-> binstall_found,
                   outcome |-> outcome,
                   status |-> r.status]
        /\ UNCHANGED <<ambient, parse_vars, registry_vars>>

\* exit_with_status / exit_with_error: the process ends; the file system stays
exit ==
    /\ run.kind # "none"
    /\ run' = NoRun
    /\ cli' = NoCli
    /\ target' = Target(NoCli, "Unspecified")
    /\ version' = V123
    /\ child' = NoChild
    /\ UNCHANGED <<fs, installs, ambient, parse_vars, registry_vars>>

Next == run_existing_binary \/ install_and_run_binary \/ exit

Spec == Init /\ [][Next]_vars

TypeOK ==
    /\ fs \in [AllPaths -> Contents]
    /\ installs \in 0..MaxInstalls
    /\ cli \in Clis
    /\ version \in Versions

(***************************************************************************)
(* Strings are sequences of one-character strings.                         *)
(***************************************************************************)
Whitespace == {" ", "\t"}

RECURSIVE trim_start(_)
trim_start(str) ==
    IF str # <<>> /\ Head(str) \in Whitespace THEN trim_start(Tail(str)) ELSE str

RECURSIVE trim_end(_)
trim_end(str) ==
    IF str # <<>> /\ str[Len(str)] \in Whitespace
    THEN trim_end(SubSeq(str, 1, Len(str) - 1)) ELSE str

\* str::trim
trim(str) == trim_end(trim_start(str))

\* str::split(sep): the pieces between the separators, at least one piece
RECURSIVE split(_, _)
split(str, sep) ==
    IF \E i \in DOMAIN str : str[i] = sep
    THEN LET i == CHOOSE j \in DOMAIN str : str[j] = sep /\ \A k \in 1..(j - 1) : str[k] # sep
         IN  <<SubSeq(str, 1, i - 1)>> \o split(SubSeq(str, i + 1, Len(str)), sep)
    ELSE <<str>>

UpperCase ==
    <<"A", "B", "C", "D", "E", "F", "G", "H", "I", "J", "K", "L", "M",
      "N", "O", "P", "Q", "R", "S", "T", "U", "V", "W", "X", "Y", "Z">>
LowerCase ==
    <<"a", "b", "c", "d", "e", "f", "g", "h", "i", "j", "k", "l", "m",
      "n", "o", "p", "q", "r", "s", "t", "u", "v", "w", "x", "y", "z">>

to_ascii_lowercase(c) ==
    IF \E i \in DOMAIN UpperCase : UpperCase[i] = c
    THEN LowerCase[CHOOSE i \in DOMAIN UpperCase : UpperCase[i] = c]
    ELSE c

\* a mutant: the comparison is case sensitive
eq_exact_case(a, b) == a = b

\* str::eq_ignore_ascii_case
eq_ignore_ascii_case(a, b) ==
    /\ Len(a) = Len(b)
    /\ \A i \in DOMAIN a : to_ascii_lowercase(a[i]) = to_ascii_lowercase(b[i])

(***************************************************************************)
(* semver::VersionReq::parse, as target.rs calls it, for requirements      *)
(* without pre-release or build parts: comma-separated comparators, each   *)
(* an optional operator, a major number and optional minor and patch parts *)
(* that are numbers or wildcards.  An absent part is <<>>, a part n <<n>>. *)
(***************************************************************************)
IsDigit(c) == c \in {"0", "1", "2", "3", "4", "5", "6", "7", "8", "9"}
DigitValue(c) == CHOOSE n \in 0..9 : DigitChar(n) = c
IsWildcard(c) == c \in {"*", "x", "X"}

CharAt(str, i) == IF i \in DOMAIN str THEN str[i] ELSE ""

RECURSIVE digits_end(_, _)
digits_end(str, i) == IF IsDigit(CharAt(str, i)) THEN digits_end(str, i + 1) ELSE i

RECURSIVE skip_spaces(_, _)
skip_spaces(str, i) == IF CharAt(str, i) = " " THEN skip_spaces(str, i + 1) ELSE i

RECURSIVE number_value(_, _, _)
number_value(str, i, j) ==
    IF j <= i THEN 0 ELSE 10 * number_value(str, i, j - 1) + DigitValue(str[j - 1])

\* a decimal number without a leading zero, from position i
numeric_identifier(str, i) ==
    LET j == digits_end(str, i) IN
    IF j = i \/ (str[i] = "0" /\ j > i + 1) THEN [ok |-> FALSE, val |-> 0, next |-> i]
    ELSE [ok |-> TRUE, val |-> number_value(str, i, j), next |-> j]

parse_op(str, i) ==
    CASE CharAt(str, i) = "=" -> [op |-> "Exact", next |-> i + 1]
      [] CharAt(str, i) = ">" /\ CharAt(str, i + 1) = "=" -> [op |-> "GreaterEq", next |-> i + 2]
      [] CharAt(str, i) = ">" /\ CharAt(str, i + 1) # "=" -> [op |-> "Greater", next |-> i + 1]
      [] CharAt(str, i) = "<" /\ CharAt(str, i + 1) = "=" -> [op |-> "LessEq", next |-> i + 2]
      [] CharAt(str, i) = "<" /\ CharAt(str, i + 1) # "=" -> [op |-> "Less", next |-> i + 1]
      [] CharAt(str, i) = "~" -> [op |-> "Tilde", next |-> i + 1]
      [] CharAt(str, i) = "^" -> [op |-> "Caret", next |-> i + 1]
      [] OTHER -> [op |-> "Caret", next |-> i]

\* a `.part` from position i: absent, a wildcard, a number, or malformed
parse_part(str, i) ==
    IF CharAt(str, i) # "." THEN [ok |-> TRUE, wild |-> FALSE, val |-> <<>>, next |-> i]
    ELSE IF IsWildcard(CharAt(str, i + 1))
    THEN [ok |-> TRUE, wild |-> TRUE, val |-> <<>>, next |-> i + 2]
    ELSE LET n == numeric_identifier(str, i + 1) IN
         [ok |-> n.ok, wild |-> FALSE, val |-> IF n.ok THEN <<n.val>> ELSE <<>>, next |-> n.next]

NoComparator == [op |-> "Caret", major |-> 0, minor |-> <<>>, patch |-> <<>>]

parse_comparator(str, i) ==
    LET o == parse_op(str, i)
        default_op == o.next = i
        maj == numeric_identifier(str, skip_spaces(str, o.next))
        min == parse_part(str, maj.next)
        pat == parse_part(str, min.next)
        wild == min.wild \/ pat.wild
    IN  IF ~maj.ok \/ ~min.ok \/ ~pat.ok \/ (min.wild /\ pat.val # <<>>)
        THEN [ok |-> FALSE, cmp |-> NoComparator, next |-> i]
        ELSE [ok |-> TRUE,
              cmp |-> [op |-> IF wild /\ default_op THEN "Wildcard" ELSE o.op,
                       major |-> maj.val, minor |-> min.val, patch |-> pat.val],
              next |-> skip_spaces(str, pat.next)]

RECURSIVE parse_comparators(_, _)
parse_comparators(str, i) ==
    LET c == parse_comparator(str, i) IN
    IF ~c.ok THEN [ok |-> FALSE, comparators |-> <<>>]
    ELSE IF c.next > Len(str) THEN [ok |-> TRUE, comparators |-> <<c.cmp>>]
    ELSE IF str[c.next] # "," THEN [ok |-> FALSE, comparators |-> <<>>]
    ELSE LET more == parse_comparators(str, skip_spaces(str, c.next + 1)) IN
         [ok |-> more.ok,
          comparators |-> IF more.ok THEN <<c.cmp>> \o more.comparators ELSE <<>>]

VersionReq_parse(str) ==
    LET i == skip_spaces(str, 1) IN
    IF IsWildcard(CharAt(str, i))
    THEN [ok |-> skip_spaces(str, i + 1) > Len(str), comparators |-> <<>>]
    ELSE parse_comparators(str, i)

(***************************************************************************)
(* target.rs                                                               *)
(***************************************************************************)
Latest == <<"l", "a", "t", "e", "s", "t">>

ParseError(msg) ==
    [ok |-> FALSE, err |-> msg, name |-> <<>>, version |-> [kind |-> "none", req |-> <<>>]]
ParseOk(name, kind, req) ==
    [ok |-> TRUE, err |-> "none", name |-> name, version |-> [kind |-> kind, req |-> req]]

\* a mutant: `@` suffixes after the first are ignored
parse_spec_ignores_extra(spec) ==
    LET parts == split(spec, "@")
        first == trim(Head(parts))
        rest == Tail(parts)
        ver == trim(Head(rest))
        requirement == VersionReq_parse(ver)
    IN  IF trim(spec) = <<>> THEN ParseError("crate spec cannot be empty")
        ELSE IF first = <<>> THEN ParseError("crate name cannot be empty")
        ELSE IF rest = <<>> THEN ParseOk(first, "Unspecified", <<>>)
        ELSE IF ver = <<>> THEN ParseError("version cannot be empty after @")
        ELSE IF eq_ignore_ascii_case(ver, Latest) THEN ParseOk(first, "Latest", <<>>)
        ELSE IF ~requirement.ok THEN ParseError("failed to parse version requirement")
        ELSE ParseOk(first, "Requirement", requirement.comparators)

parse_spec(spec) ==
    LET parts == split(spec, "@")
        first == trim(Head(parts))
        rest == Tail(parts)
        ver == trim(Head(rest))
        requirement == VersionReq_parse(ver)
    IN  IF trim(spec) = <<>> THEN ParseError("crate spec cannot be empty")
        ELSE IF first = <<>> THEN ParseError("crate name cannot be empty")
        ELSE IF rest = <<>> THEN ParseOk(first, "Unspecified", <<>>)
        ELSE IF Len(rest) > 1 THEN ParseError("expected at most one @version suffix")
        ELSE IF ver = <<>> THEN ParseError("version cannot be empty after @")
        ELSE IF eq_ignore_ascii_case(ver, Latest) THEN ParseOk(first, "Latest", <<>>)
        ELSE IF ~requirement.ok THEN ParseError("failed to parse version requirement")
        ELSE ParseOk(first, "Requirement", requirement.comparators)

(***************************************************************************)
(* The installer's child environment and the path resolver under every     *)
(* ambient environment (specification SpecEnv).                            *)
(***************************************************************************)
AmbientValue(k) ==
    CASE k = "CARGOX_INSTALL_DIR" -> <<"custom">>
      [] k = "HOME" -> <<"home", "u">>
      [] k = "XDG_DATA_HOME" -> <<"xdg">>
      [] k = "USERPROFILE" -> <<"profile">>
      [] k = "SOME_OTHER_VAR" -> <<"should_remain">>
      [] k = "CARGO_INSTALL_ROOT" -> <<"some", "path">>
      [] k = "CARGO_HOME" -> <<"some", "cargo">>
      [] k = "BINSTALL_INSTALL_PATH" -> <<"some", "binstall">>
      [] k = "RUSTUP_HOME" -> <<"some", "rustup">>
      [] k = "CARGO_TARGET_DIR" -> <<"some", "target">>
      [] OTHER -> <<"ambient">>

\* every choice of which variables the caller's environment sets
AmbientEnvs ==
    {[k \in EnvVars |-> IF k \in set THEN AmbientValue(k) ELSE Unset] : set \in SUBSET EnvVars}

\* the generic tooling variables that the path resolver must not consult
GenericVars == {"CARGO_INSTALL_ROOT", "CARGO_HOME", "BINSTALL_INSTALL_PATH"}

\* the files a lookup of `name` can meet: on PATH, in cargox's directories
\* (those of `present`), and, always there, in the directories the generic
\* variables name
LookupFs(e, name, present) ==
    LET own == {candidate_bin_dirs(e)[i] : i \in DOMAIN candidate_bin_dirs(e)}
        generic == UNION {{e[g], PathJoin(e[g], "bin")} : g \in {h \in GenericVars : e[h] # Unset}}
    IN  [p \in {FilePath(d, name) : d \in {SystemPathDir} \cup own \cup generic} |->
            IF p.dir \in generic \ own THEN External
            ELSE IF p.dir \in present THEN External
            ELSE Absent]

SpecEnvInit ==
    /\ ambient \in AmbientEnvs
    /\ child = NoChild
    /\ fs = <<>>
    /\ PipelineIdle
    /\ ParseIdle /\ RegistryIdle

\* install_with_binstall up to cmd.status(): the child process it spawns
install_with_binstall ==
    /\ child = NoChild /\ run.kind = "none"
    /\ get_install_dir(ambient).ok
    /\ child' = spawn_child("binstall", ambient)
    /\ UNCHANGED <<ambient, pipeline_vars, parse_vars, registry_vars>>

\* install_with_cargo up to cmd.status(): the child process it spawns
install_with_cargo ==
    /\ child = NoChild /\ run.kind = "none"
    /\ get_install_dir(ambient).ok
    /\ child' = spawn_child("cargo", ambient)
    /\ UNCHANGED <<ambient, pipeline_vars, parse_vars, registry_vars>>

\* resolve_binary_path(name) over a file system
lookup_binary ==
    \E present \in SUBSET {SystemPathDir, PathJoin(get_install_dir(ambient).dir, "bin"),
                          get_install_dir(ambient).dir} :
        LET f == LookupFs(ambient, Rg, present)
            r == resolve_binary_path(ambient, f, Rg)
        IN
        /\ child = NoChild /\ run.kind = "none"
        /\ fs' = f
        /\ run' = [NoRun EXCEPT !.kind = "lookup", !.executed = r.ok,
                                !.err = IF r.ok THEN "none" ELSE "BinaryNotFound",
                                !.binary_path = r.path]
        /\ UNCHANGED <<installs, cli, target, version, env_vars, parse_vars, registry_vars>>

SpecEnvNext == install_with_binstall \/ install_with_cargo \/ lookup_binary

SpecEnv == SpecEnvInit /\ [][SpecEnvNext]_vars

(***************************************************************************)
(* semver::Version::parse, ordering and VersionReq::matches, as            *)
(* registry.rs uses them.  Build metadata is not modelled; a pre-release   *)
(* is one identifier of lower-case letters; a comparator has none.         *)
(***************************************************************************)
NoVersion == Version(0, 0, 0, <<>>)

IsLetter(c) == \E i \in DOMAIN LowerCase : LowerCase[i] = c
LetterRank(c) == CHOOSE i \in DOMAIN LowerCase : LowerCase[i] = c

Version_parse(str) ==
    LET maj == numeric_identifier(str, 1)
        min == numeric_identifier(str, maj.next + 1)
        pat == numeric_identifier(str, min.next + 1)
        pre == SubSeq(str, pat.next + 1, Len(str))
    IN  IF ~maj.ok \/ CharAt(str, maj.next) # "." THEN [ok |-> FALSE, version |-> NoVersion]
        ELSE IF ~min.ok \/ CharAt(str, min.next) # "." THEN [ok |-> FALSE, version |-> NoVersion]
        ELSE IF ~pat.ok THEN [ok |-> FALSE, version |-> NoVersion]
        ELSE IF pat.next > Len(str)
        THEN [ok |-> TRUE, version |-> Version(maj.val, min.val, pat.val, <<>>)]
        ELSE IF str[pat.next] = "-" /\ pre # <<>> /\ \A i \in DOMAIN pre : IsLetter(pre[i])
        THEN [ok |-> TRUE, version |-> Version(maj.val, min.val, pat.val, pre)]
        ELSE [ok |-> FALSE, version |-> NoVersion]

RECURSIVE text_lt(_, _)
text_lt(a, b) ==
    IF b = <<>> THEN FALSE
    ELSE IF a = <<>> THEN TRUE
    ELSE IF Head(a) # Head(b) THEN LetterRank(Head(a)) < LetterRank(Head(b))
    ELSE text_lt(Tail(a), Tail(b))

\* Prerelease ordering: a pre-release precedes the release
pre_lt(p, q) ==
    IF p = <<>> THEN FALSE
    ELSE IF q = <<>> THEN TRUE
    ELSE text_lt(p, q)

\* Ord for Version
version_lt(a, b) ==
    IF a.major # b.major THEN a.major < b.major
    ELSE IF a.minor # b.minor THEN a.minor < b.minor
    ELSE IF a.patch # b.patch THEN a.patch < b.patch
    ELSE pre_lt(a.pre, b.pre)

ComparatorPre == <<>>

matches_exact(cmp, ver) ==
    /\ ver.major = cmp.major
    /\ cmp.minor # <<>> => ver.minor = cmp.minor[1]
    /\ cmp.patch # <<>> => ver.patch = cmp.patch[1]
    /\ ver.pre = ComparatorPre

matches_greater(cmp, ver) ==
    IF ver.major # cmp.major THEN ver.major > cmp.major
    ELSE IF cmp.minor = <<>> THEN FALSE
    ELSE IF ver.minor # cmp.minor[1] THEN ver.minor > cmp.minor[1]
    ELSE IF cmp.patch = <<>> THEN FALSE
    ELSE IF ver.patch # cmp.patch[1] THEN ver.patch > cmp.patch[1]
    ELSE pre_lt(ComparatorPre, ver.pre)

matches_less(cmp, ver) ==
    IF ver.major # cmp.major THEN ver.major < cmp.major
    ELSE IF cmp.minor = <<>> THEN FALSE
    ELSE IF ver.minor # cmp.minor[1] THEN ver.minor < cmp.minor[1]
    ELSE IF cmp.patch = <<>> THEN FALSE
    ELSE IF ver.patch # cmp.patch[1] THEN ver.patch < cmp.patch[1]
    ELSE pre_lt(ver.pre, ComparatorPre)

matches_tilde(cmp, ver) ==
    IF ver.major # cmp.major THEN FALSE
    ELSE IF cmp.minor # <<>> /\ ver.minor # cmp.minor[1] THEN FALSE
    ELSE IF cmp.patch # <<>> /\ ver.patch # cmp.patch[1] THEN ver.patch > cmp.patch[1]
    ELSE ~pre_lt(ver.pre, ComparatorPre)

matches_caret(cmp, ver) ==
    IF ver.major # cmp.major THEN FALSE
    ELSE IF cmp.minor = <<>> THEN TRUE
    ELSE IF cmp.patch = <<>>
         THEN IF cmp.major > 0 THEN ver.minor >= cmp.minor[1] ELSE ver.minor = cmp.minor[1]
    ELSE IF cmp.major > 0 /\ ver.minor # cmp.minor[1] THEN ver.minor > cmp.minor[1]
    ELSE IF cmp.major > 0 /\ ver.patch # cmp.patch[1] THEN ver.patch > cmp.patch[1]
    ELSE IF cmp.major = 0 /\ cmp.minor[1] > 0 /\ ver.minor # cmp.minor[1] THEN FALSE
    ELSE IF cmp.major = 0 /\ cmp.minor[1] > 0 /\ ver.patch # cmp.patch[1]
         THEN ver.patch > cmp.patch[1]
    ELSE IF cmp.major = 0 /\ cmp.minor[1] = 0
            /\ (ver.minor # cmp.minor[1] \/ ver.patch # cmp.patch[1]) THEN FALSE
    ELSE ~pre_lt(ver.pre, ComparatorPre)

matches_comparator(cmp, ver) ==
    CASE cmp.op \in {"Exact", "Wildcard"} -> matches_exact(cmp, ver)
      [] cmp.op = "Greater" -> matches_greater(cmp, ver)
      [] cmp.op = "GreaterEq" -> matches_exact(cmp, ver) \/ matches_greater(cmp, ver)
      [] cmp.op = "Less" -> matches_less(cmp, ver)
      [] cmp.op = "LessEq" -> matches_exact(cmp, ver) \/ matches_less(cmp, ver)
      [] cmp.op = "Tilde" -> matches_tilde(cmp, ver)
      [] cmp.op = "Caret" -> matches_caret(cmp, ver)

\* VersionReq::matches: every comparator matches, and a pre-release version
\* needs a comparator with a pre-release of the same major.minor.patch (no
\* comparator of this model has one)
matches(req, ver) ==
    /\ \A i \in DOMAIN req : matches_comparator(req[i], ver)
    /\ ver.pre = <<>>

(***************************************************************************)
(* registry.rs                                                             *)
(***************************************************************************)
\* a mutant: yanked entries are kept
published_versions_with_yanked(entries) ==
    LET results == [i \in DOMAIN entries |-> Version_parse(entries[i].num)]
        good == SelectSeq(results, LAMBDA r : r.ok)
    IN  [i \in DOMAIN good |-> good[i].version]

\* .filter(|v| !v.yanked).filter_map(|entry| Version::parse(&entry.num).ok())
published_versions(entries) ==
    LET kept == SelectSeq(entries, LAMBDA e : ~e.yanked)
        results == [i \in DOMAIN kept |-> Version_parse(kept[i].num)]
        good == SelectSeq(results, LAMBDA r : r.ok)
    IN  [i \in DOMAIN good |-> good[i].version]

RECURSIVE insert_sorted(_, _)
insert_sorted(sorted, v) ==
    IF sorted = <<>> THEN <<v>>
    ELSE IF version_lt(v, Head(sorted)) THEN <<v>> \o sorted
    ELSE <<Head(sorted)>> \o insert_sorted(Tail(sorted), v)

\* versions.sort(): ascending, stable
RECURSIVE sort_versions(_)
sort_versions(vs) ==
    IF vs = <<>> THEN <<>>
    ELSE insert_sorted(sort_versions(SubSeq(vs, 1, Len(vs) - 1)), vs[Len(vs)])

\* a mutant: the scan runs from the lowest version up
find_matching_from_lowest(sorted, req) ==
    IF \E i \in DOMAIN sorted : matches(req, sorted[i])
    THEN [ok |-> TRUE,
          version |-> sorted[CHOOSE i \in DOMAIN sorted :
                                /\ matches(req, sorted[i])
                                /\ \A j \in DOMAIN sorted : j < i => ~matches(req, sorted[j])]]
    ELSE [ok |-> FALSE, version |-> NoVersion]

\* versions.iter().rev().find(|v| req.matches(v))
find_matching_from_highest(sorted, req) ==
    IF \E i \in DOMAIN sorted : matches(req, sorted[i])
    THEN [ok |-> TRUE,
          version |-> sorted[CHOOSE i \in DOMAIN sorted :
                                /\ matches(req, sorted[i])
                                /\ \A j \in DOMAIN sorted : j > i => ~matches(req, sorted[j])]]
    ELSE [ok |-> FALSE, version |-> NoVersion]

NoRequirement == [some |-> FALSE, comparators |-> <<>>]
SomeRequirement(text) == [some |-> TRUE, comparators |-> VersionReq_parse(text).comparators]

\* fetch_highest_matching_version once the registry has answered with `entries`
fetch_highest_matching_version(entries, requirement) ==
    LET versions == published_versions(entries)
        sorted == sort_versions(versions)
        found == find_matching_from_highest(sorted, requirement.comparators)
    IN  IF versions = <<>> THEN [ok |-> FALSE, err |-> "NoVersionsFound", version |-> NoVersion]
        ELSE IF requirement.some
        THEN IF found.ok THEN [ok |-> TRUE, err |-> "none", version |-> found.version]
             ELSE [ok |-> FALSE, err |-> "NoMatchingVersion", version |-> NoVersion]
        ELSE [ok |-> TRUE, err |-> "none", version |-> sorted[Len(sorted)]]

(***************************************************************************)
(* Registry resolution over version lists (specification SpecRegistry).    *)
(***************************************************************************)
\* the longest version list the registry returns
MaxVersions == 4

Entry(num, yanked) == [num |-> num, yanked |-> yanked]
E100 == Entry(<<"1", ".", "0", ".", "0">>, FALSE)
E120y == Entry(<<"1", ".", "2", ".", "0">>, TRUE)
E150 == Entry(<<"1", ".", "5", ".", "0">>, FALSE)
E200 == Entry(<<"2", ".", "0", ".", "0">>, FALSE)
E210a == Entry(<<"2", ".", "1", ".", "0", "-", "r", "c">>, FALSE)
Ebad == Entry(<<"2", ".", "5">>, FALSE)
EntryPool == {E100, E120y, E150, E200, E210a, Ebad}

RequirementPool ==
    {NoRequirement,
     SomeRequirement(<<"^", "1", ".", "0", ".", "0">>),
     SomeRequirement(<<"=", "1", ".", "2", ".", "0">>),
     SomeRequirement(<<"~", "1", ".", "5">>),
     SomeRequirement(<<">", "=", "3">>),
     SomeRequirement(<<"<", "2", ".", "0", ".", "0">>)}

SpecRegistryInit ==
    /\ listing = <<>>
    /\ resolved = <<>>
    /\ fs = <<>> /\ PipelineIdle /\ EnvIdle /\ ParseIdle

\* the registry's answer holds one more version
registry_lists_version ==
    \E e \in EntryPool :
        /\ resolved = <<>>
        /\ Len(listing) < MaxVersions
        /\ listing' = Append(listing, e)
        /\ UNCHANGED <<resolved, pipeline_vars, env_vars, parse_vars>>

\* fetch_highest_matching_version(crate_name, requirement) on that answer
resolve_version ==
    \E requirement \in RequirementPool :
        /\ resolved = <<>>
        /\ resolved' = [requirement |-> requirement,
                        result |-> fetch_highest_matching_version(listing, requirement)]
        /\ UNCHANGED <<listing, pipeline_vars, env_vars, parse_vars>>

SpecRegistryNext == registry_lists_version \/ resolve_version

SpecRegistry == SpecRegistryInit /\ [][SpecRegistryNext]_vars

(***************************************************************************)
(* parse_spec over crate spec strings (specification SpecParse).           *)
(***************************************************************************)
Cmp(op, major, minor, patch) == [op |-> op, major |-> major, minor |-> minor, patch |-> patch]

\* version tokens, each with what it is (blank, a spelling of latest, a valid
\* requirement or malformed) and, for a requirement, its comparators
VersionTokens ==
    {[text |-> <<>>, class |-> "blank", req |-> <<>>],
     [text |-> <<"l", "a", "t", "e", "s", "t">>, class |-> "latest", req |-> <<>>],
     [text |-> <<"L", "A", "T", "E", "S", "T">>, class |-> "latest", req |-> <<>>],
     [text |-> <<"L", "a", "T", "e", "S", "t">>, class |-> "latest", req |-> <<>>],
     [text |-> <<"1", ".", "2", ".", "3">>, class |-> "req", req |-> <<Cmp("Caret", 1, <<2>>, <<3>>)>>],
     [text |-> <<"^", "1", ".", "2", ".", "3">>, class |-> "req", req |-> <<Cmp("Caret", 1, <<2>>, <<3>>)>>],
     [text |-> <<"1", ".", "0", ".", "0">>, class |-> "req", req |-> <<Cmp("Caret", 1, <<0>>, <<0>>)>>],
     [text |-> <<"^", "1", ".", "0">>, class |-> "req", req |-> <<Cmp("Caret", 1, <<0>>, <<>>)>>],
     [text |-> <<"=", "1", ".", "2", ".", "3">>, class |-> "req", req |-> <<Cmp("Exact", 1, <<2>>, <<3>>)>>],
     [text |-> <<">", "=", "1", ".", "0", ",", " ", "<", "2">>, class |-> "req", req |-> <<Cmp("GreaterEq", 1, <<0>>, <<>>), Cmp("Less", 2, <<>>, <<>>)>>],
     [text |-> <<"~", "1", ".", "2">>, class |-> "req", req |-> <<Cmp("Tilde", 1, <<2>>, <<>>)>>],
     [text |-> <<"1", ".", "*">>, class |-> "req", req |-> <<Cmp("Wildcard", 1, <<>>, <<>>)>>],
     [text |-> <<"*">>, class |-> "req", req |-> <<>>],
     [text |-> <<"b", "a", "r">>, class |-> "bad", req |-> <<>>],
     [text |-> <<"b", "a", "z">>, class |-> "bad", req |-> <<>>],
     [text |-> <<"1", ".", "2", ".", "3", ".", "4">>, class |-> "bad", req |-> <<>>],
     [text |-> <<"0", "1", ".", "0", ".", "0">>, class |-> "bad", req |-> <<>>],
     [text |-> <<"l", "a", "t", "e", "s", "t", "1">>, class |-> "bad", req |-> <<>>],
     [text |-> <<"v", "1">>, class |-> "bad", req |-> <<>>],
     [text |-> <<"1", ".", "*", ".", "2">>, class |-> "bad", req |-> <<>>],
     [text |-> <<"1", ".", "0", ",">>, class |-> "bad", req |-> <<>>]}

\* tokens of a second `@` suffix
SecondTokens == {t \in VersionTokens : t.text \in {<<>>, <<"1", ".", "0", ".", "0">>, <<"b", "a", "z">>}}

\* names: none, foo, and a name with a space inside
CoreNames == {<<>>, <<"f", "o", "o">>, <<"a", " ", "b">>}
Paddings == {<<>>, <<" ">>}

\* the `@` suffixes of an input: none, one token, or two
SuffixLists ==
    {<<>>}
    \cup {<<[token |-> t, pad |-> pd]>> : t \in VersionTokens, pd \in Paddings}
    \cup {<<[token |-> t, pad |-> pd], [token |-> u, pad |-> <<>>]>> :
            t \in VersionTokens, pd \in Paddings, u \in SecondTokens}

RECURSIVE suffix_text(_)
suffix_text(sufs) ==
    IF sufs = <<>> THEN <<>>
    ELSE <<"@">> \o Head(sufs).pad \o Head(sufs).token.text \o Head(sufs).pad
         \o suffix_text(Tail(sufs))

\* a crate spec string together with the parts it was written from
SpecInput(lead, core, trail, sufs) ==
    [raw |-> lead \o core \o trail \o suffix_text(sufs),
     core |-> core, suffixes |-> sufs]

SpecParseInit ==
    /\ \E lead \in Paddings, core \in CoreNames, trail \in Paddings, sufs \in SuffixLists :
          input = SpecInput(lead, core, trail, sufs)
    /\ parsed = <<>>
    /\ fs = <<>> /\ PipelineIdle /\ EnvIdle /\ RegistryIdle

\* parse_target_from_cli: parse_spec(&cli.crate_spec)
parse_target_from_cli ==
    /\ parsed = <<>>
    /\ parsed' = parse_spec(input.raw)
    /\ UNCHANGED <<input, pipeline_vars, env_vars, registry_vars>>

SpecParseNext == parse_target_from_cli

SpecParse == SpecParseInit /\ [][SpecParseNext]_vars

(***************************************************************************)
(* Claims about the pipeline (specification Spec).                         *)
(***************************************************************************)
\* the installer backends invoked by the current run
backend_calls == run.binstall_calls + run.cargo_calls

\* C1: a run for name@X.Y.Z whose resolved version is already at its versioned
\* path, without the force option, invokes no installer backend and executes
\* the cached binary.
C1_CachedVersionSkipsInstaller ==
    (run.kind # "none" /\ version_is_some(target) /\ run.was_cached /\ ~cli.force)
        => (backend_calls = 0 /\ run.executed)

C9_IdempotentOverwrite ==
    [][(run.kind = "none" /\ run'.kind = "install" /\ run'.deposited /\ run'.installed) =>
          LET b == target'.binary IN
          /\ fs'[versioned_binary_path(b, version')] = Built(installs')
          /\ installs' = installs + 1
          /\ ~exists(fs', FilePath(PathJoin(InstallDir, "bin"), b))
          /\ \A v \in Versions \ {version'} :
                /\ versioned_binary_path(b, v) # versioned_binary_path(b, version')
                /\ fs'[versioned_binary_path(b, v)] = fs[versioned_binary_path(b, v)]
      ]_vars

\* C9 witness: version V has been installed over an earlier install of V.
C9_Reinstalled ==
    /\ run.kind = "install" /\ run.deposited /\ run.installed
    /\ run.replaced /\ run.was_cached
    /\ fs[versioned_binary_path(target.binary, version)] = Built(installs)

\* C11: a run for an unversioned target without the force option looks the
\* binary up on the system PATH first, then in <root>/bin, then in <root>; the
\* first of these that holds the file is the binary executed, a PATH match
\* winning over a file of the same name in the install root; when none holds
\* it the run does not stop there but invokes an installer backend.
C11_UnversionedLookupOrder ==
    [][(run.kind = "none" /\ run'.kind # "none" /\ ~cli'.force /\ ~version_is_some(target')) =>
          LET b == target'.binary
              on_path == FilePath(SystemPathDir, b)
              in_bin == FilePath(PathJoin(InstallDir, "bin"), b)
              in_root == FilePath(InstallDir, b)
              used(p) == run'.kind = "existing" /\ run'.executed /\ run'.binary_path = p
          IN  IF exists(fs, on_path) THEN used(on_path)
              ELSE IF exists(fs, in_bin) THEN used(in_bin)
              ELSE IF exists(fs, in_root) THEN used(in_root)
              ELSE run'.kind = "install" /\ run'.binstall_calls + run'.cargo_calls = 1
      ]_vars

\* C11 witness: the binary on PATH has been executed while a file of the same
\* name lies in the install root.
C11_PathMatchWinsOverRoot ==
    /\ run.kind = "existing" /\ run.executed
    /\ run.binary_path = FilePath(SystemPathDir, target.binary)
    /\ exists(fs, FilePath(InstallDir, target.binary))

\* C12: a run that calls ensure_installed invokes one backend, once: it is
\* cargo-binstall exactly when build-from-source is not set and cargo-binstall
\* was found on PATH, otherwise cargo install; when the backend exits with a
\* failure status or is killed by a signal the run ends with the tool's error
\* carrying the exit code or "signal", the other backend is not invoked, and
\* nothing is installed or executed.
C12_SingleBackendAttempt ==
    run.kind = "install" =>
        /\ backend_calls = 1
        /\ run.binstall_calls = 1 <=> (~cli.build_from_source /\ run.binstall_found)
        /\ run.cargo_calls = 1 <=> (cli.build_from_source \/ ~run.binstall_found)
        /\ child.backend = IF run.binstall_calls = 1 THEN "binstall" ELSE "cargo"
        /\ run.outcome \in {"exit_failure", "signal"} =>
              /\ run.err = "ExternalToolFailed"
              /\ run.status = IF run.outcome = "signal" THEN "signal" ELSE "code"
              /\ ~run.installed /\ ~run.executed

\* C12 witness: cargo-binstall was chosen, was killed by a signal, and the run
\* ended with its error.
C12_BinstallKilledBySignal ==
    /\ run.kind = "install" /\ run.binstall_calls = 1
    /\ run.outcome = "signal" /\ run.err = "ExternalToolFailed" /\ run.status = "signal"

\* C13: when the backend reports success and <root>/bin/<binary> is absent,
\* the install fails with InstallationIncomplete; a run that fails so removes
\* and renames nothing: every file that existed still exists, every file
\* outside <root>/bin has its content, and so the versioned file of
\* (binary, version) installed earlier is still there with its content.
C13_IncompleteLeavesStateUnchanged ==
    [][(run.kind = "none" /\ run'.kind = "install") =>
          LET b == target'.binary
              bin_dir == PathJoin(InstallDir, "bin")
              missing == run'.outcome = "success" /\ ~run'.deposited
                            /\ ~exists(fs, FilePath(bin_dir, b))
          IN  /\ missing <=> run'.err = "InstallationIncomplete"
              /\ run'.err = "InstallationIncomplete" =>
                    /\ ~run'.installed /\ ~run'.executed
                    /\ \A p \in AllPaths :
                          /\ exists(fs, p) => exists(fs', p)
                          /\ p.dir # bin_dir => fs'[p] = fs[p]
                    /\ fs'[versioned_binary_path(b, version')]
                          = fs[versioned_binary_path(b, version')]
      ]_vars

\* C13 witness: an install of a version that was installed before has failed
\* with InstallationIncomplete, and the earlier versioned file is in place.
C13_IncompleteOverEarlierInstall ==
    /\ run.kind = "install" /\ run.err = "InstallationIncomplete"
    /\ run.was_cached
    /\ \E n \in 1..MaxInstalls : fs[versioned_binary_path(target.binary, version)] = Built(n)

(***************************************************************************)
(* Claims about the child environment and path resolution (SpecEnv).       *)
(***************************************************************************)
\* C3: for every ambient environment and both backends, the spawned child's
\* environment keeps every variable that is not on the removal list at its
\* ambient value, holds none of CARGO_HOME, CARGO_BUILD_TARGET_DIR,
\* CARGO_TARGET_DIR, BINSTALL_INSTALL_PATH, RUSTUP_HOME, RUSTUP_TOOLCHAIN with
\* its ambient value, and holds CARGO_INSTALL_ROOT set to the private root.
C3_SandboxedEnvironment ==
    child.backend # "none" =>
        /\ \A k \in EnvVars \ {"CARGO_INSTALL_ROOT", "CARGO_HOME", "CARGO_BUILD_TARGET_DIR",
                               "CARGO_TARGET_DIR", "BINSTALL_INSTALL_PATH", "RUSTUP_HOME",
                               "RUSTUP_TOOLCHAIN"} : child.env[k] = ambient[k]
        /\ \A k \in {"CARGO_HOME", "CARGO_BUILD_TARGET_DIR", "CARGO_TARGET_DIR",
                     "BINSTALL_INSTALL_PATH", "RUSTUP_HOME", "RUSTUP_TOOLCHAIN"} :
               ambient[k] # Unset => child.env[k] # ambient[k]
        /\ get_install_dir(ambient).ok
        /\ child.env["CARGO_INSTALL_ROOT"] = get_install_dir(ambient).dir
        /\ child.env["CARGO_INSTALL_ROOT"] # Unset

\* C3 witness: a child was spawned by each backend from an environment that sets
\* every variable of the removal list and an unrelated one.
C3_SpawnedFromFullEnvironment ==
    /\ child.backend = "cargo"
    /\ \A k \in EnvVars : ambient[k] # Unset
    /\ child.env["SOME_OTHER_VAR"] = <<"should_remain">>

\* C4: when install_with_cargo spawns `cargo install`, the child's environment
\* has CARGO_TARGET_DIR set to the scratch directory of this invocation.
C4_ScratchDirReachesChild ==
    child.backend = "cargo" =>
        /\ child.temp_dir # Unset
        /\ child.env["CARGO_TARGET_DIR"] = child.temp_dir

\* the environments that differ from e at most in the generic variables
GenericVariants(e) ==
    {[k \in EnvVars |-> IF k \in GenericVars THEN g[k] ELSE e[k]] :
        g \in [GenericVars -> {Unset, <<"some", "path">>, <<"elsewhere">>}]}

\* the application-specific install root: the override variable first, else the
\* platform data directory, else ~/.local/share/cargox
AppRoot(e) ==
    IF e["CARGOX_INSTALL_DIR"] # Unset THEN e["CARGOX_INSTALL_DIR"]
    ELSE IF e["HOME"] # Unset /\ e["XDG_DATA_HOME"] # Unset THEN e["XDG_DATA_HOME"] \o <<"cargox">>
    ELSE IF e["HOME"] # Unset THEN e["HOME"] \o <<".local", "share", "cargox">>
    ELSE e["USERPROFILE"] \o <<".local", "share", "cargox">>

IsPrefix(a, b) == Len(a) <= Len(b) /\ SubSeq(b, 1, Len(a)) = a

\* C10: environments that differ only in CARGO_INSTALL_ROOT, CARGO_HOME and
\* BINSTALL_INSTALL_PATH give the same install directory and the same candidate
\* directories, and a path returned by the binary lookup is on the system PATH
\* or under the application-specific install root, never under a directory
\* those variables name.
C10_AmbientIndependence ==
    /\ \A e2 \in GenericVariants(ambient) :
          /\ get_install_dir(e2) = get_install_dir(ambient)
          /\ candidate_bin_dirs(e2) = candidate_bin_dirs(ambient)
    /\ (run.kind = "lookup" /\ run.executed) =>
          /\ \/ run.binary_path.dir = SystemPathDir
             \/ IsPrefix(AppRoot(ambient), run.binary_path.dir)
          /\ \A g \in GenericVars :
                ambient[g] # Unset => ~IsPrefix(ambient[g], run.binary_path.dir)

\* C10 witness: with the three generic variables set and binaries present in
\* the directories they name, a lookup that misses PATH returns the file in
\* the install root's bin directory.
C10_LookupWithGenericVarsSet ==
    /\ run.kind = "lookup" /\ run.executed
    /\ \A g \in GenericVars : ambient[g] # Unset
    /\ ambient["CARGOX_INSTALL_DIR"] = Unset
    /\ run.binary_path = FilePath(PathJoin(AppRoot(ambient), "bin"), Rg)
    /\ exists(fs, FilePath(<<"some", "cargo", "bin">>, Rg))

(***************************************************************************)
(* Claims about parse_spec (specification SpecParse).                      *)
(***************************************************************************)
\* C7: parse_spec returns an error for an empty or blank input, for an empty
\* or blank name before `@`, for an empty or blank version token, for more
\* than one `@`, and for a version token that is neither latest nor a valid
\* requirement; "", "@1.0.0", "foo@" and "foo@bar@baz" are among the inputs.
C7_RejectsMalformed ==
    parsed # <<>> =>
        /\ input.core = <<>> => ~parsed.ok
        /\ Len(input.suffixes) > 1 => ~parsed.ok
        /\ (Len(input.suffixes) = 1 /\ input.suffixes[1].token.class \in {"blank", "bad"})
              => ~parsed.ok
        /\ ~parsed.ok => parsed.name = <<>> /\ parsed.version.kind = "none"

\* C7 witness: foo@bar@baz has been parsed and rejected.
C7_RejectedTwoSuffixes ==
    /\ parsed # <<>> /\ ~parsed.ok
    /\ input.raw = <<"f", "o", "o", "@", "b", "a", "r", "@", "b", "a", "z">>

\* C8: for an input with a non-blank name and at most one `@`, the name
\* returned is the trimmed text left of the separator, and the request follows
\* from the version token alone: none gives Unspecified, any spelling of
\* latest gives Latest, a valid requirement gives Requirement with its
\* comparators (a bare X.Y.Z is the caret requirement ^X.Y.Z).
C8_ClassifiesWellFormed ==
    (parsed # <<>> /\ input.core # <<>> /\ Len(input.suffixes) <= 1) =>
        /\ input.suffixes = <<>> =>
              parsed.ok /\ parsed.name = input.core /\ parsed.version.kind = "Unspecified"
        /\ (input.suffixes # <<>> /\ input.suffixes[1].token.class = "latest") =>
              parsed.ok /\ parsed.name = input.core /\ parsed.version.kind = "Latest"
        /\ (input.suffixes # <<>> /\ input.suffixes[1].token.class = "req") =>
              /\ parsed.ok /\ parsed.name = input.core
              /\ parsed.version.kind = "Requirement"
              /\ parsed.version.req = input.suffixes[1].token.req

\* C8 witness: a padded name with the token LaTeSt has been parsed as Latest.
C8_ParsedMixedCaseLatest ==
    /\ parsed # <<>> /\ parsed.ok /\ parsed.version.kind = "Latest"
    /\ input.raw = <<" ", "f", "o", "o", " ", "@", " ", "L", "a", "T", "e", "S", "t", " ">>
    /\ parsed.name = <<"f", "o", "o">>

(***************************************************************************)
(* Claims about registry resolution (specification SpecRegistry).          *)
(***************************************************************************)
\* the versions of the entries that are not yanked and parse
Candidates(entries) ==
    {Version_parse(entries[i].num).version :
        i \in {j \in DOMAIN entries : ~entries[j].yanked /\ Version_parse(entries[j].num).ok}}

version_le(a, b) == a = b \/ version_lt(a, b)

\* C5: a successful resolution returns, without a constraint, the maximum of
\* the non-yanked parseable entries; with a constraint, the highest of them
\* that satisfies it; the version is that of a non-yanked entry of the list.
\* [1.0.0, 1.2.0 yanked, 1.5.0, 2.0.0] resolves to 2.0.0, and to 1.5.0 under
\* ^1.0.0.
C5_HighestMatching ==
    (resolved # <<>> /\ resolved.result.ok) =>
        LET v == resolved.result.version
            req == resolved.requirement
        IN  /\ v \in Candidates(listing)
            /\ \E i \in DOMAIN listing :
                  ~listing[i].yanked /\ VersionToString(v) = listing[i].num
            /\ ~req.some => \A c \in Candidates(listing) : version_le(c, v)
            /\ req.some =>
                  /\ matches(req.comparators, v)
                  /\ \A c \in Candidates(listing) :
                        matches(req.comparators, c) => version_le(c, v)
            /\ listing = <<E100, E120y, E150, E200>> =>
                  /\ ~req.some => v = Version(2, 0, 0, <<>>)
                  /\ req = SomeRequirement(<<"^", "1", ".", "0", ".", "0">>)
                        => v = Version(1, 5, 0, <<>>)

\* C5 witness: [1.0.0, 1.2.0 yanked, 1.5.0, 2.0.0] has been resolved under ^1.0.0.
C5_ResolvedExample ==
    /\ resolved # <<>> /\ resolved.result.ok
    /\ listing = <<E100, E120y, E150, E200>>
    /\ resolved.requirement = SomeRequirement(<<"^", "1", ".", "0", ".", "0">>)

\* C6: resolution fails with NoVersionsFound exactly when no entry is both
\* non-yanked and parseable, with or without a constraint; with such entries
\* and a constraint that none satisfies it fails with NoMatchingVersion; in
\* every other case it succeeds; a failure carries no version.
C6_ResolutionFailures ==
    resolved # <<>> =>
        LET r == resolved.result
            req == resolved.requirement
            cand == Candidates(listing)
        IN  /\ cand = {} => ~r.ok /\ r.err = "NoVersionsFound"
            /\ (cand # {} /\ req.some /\ \A c \in cand : ~matches(req.comparators, c))
                  => ~r.ok /\ r.err = "NoMatchingVersion"
            /\ (cand # {} /\ (req.some => \E c \in cand : matches(req.comparators, c)))
                  => r.ok /\ r.err = "none"
            /\ ~r.ok => r.version = NoVersion

\* C6 witness: a list whose entries are all yanked has been resolved under a
\* constraint and failed with NoVersionsFound.
C6_AllYankedFailed ==
    /\ resolved # <<>> /\ ~resolved.result.ok
    /\ resolved.result.err = "NoVersionsFound"
    /\ resolved.requirement.some
    /\ listing = <<E120y, E120y>>

=============================================================================
